---- MODULE Spec2Model ----
(***************************************************************************)
(* jabba: the install command (src/command/install.go).                    *)
(*                                                                         *)
(* Strings are sequences of string tokens ("1.8.0", "+", "://", ...) so    *)
(* that Contains, SplitN, HasPrefix, TrimPrefix and the qualifier regexp   *)
(* are computed on the text as the code computes them.  A path is a        *)
(* sequence of path components.  The filesystem is a function from the     *)
(* paths that exist to what is stored there.                               *)
(***************************************************************************)
EXTENDS Integers, Sequences, FiniteSets, TLC

VARIABLES
    goos,       \* runtime.GOOS of the host
    fs,         \* the filesystem: [path -> kind] over the paths that exist
    st,         \* per caller: the locals of its Install invocation
    nextTmp,    \* how many temporary names ioutil.TempFile/TempDir handed out
    calls,      \* how many Install invocations were started
    archive,    \* r.File of the zip archive at ArchivePath: its entries
    client      \* the http.Client of a download: the requests of its chain

vars == <<goos, fs, st, nextTmp, calls, archive, client>>

(***************************************************************************)
(* Bounds of the model.                                                    *)
(***************************************************************************)
MaxCalls == 2

\* how many entries a zip archive has at most
MaxEntries == 4

Procs == {"p1", "p2"}

(***************************************************************************)
(* Generic helpers on sequences.                                           *)
(***************************************************************************)
Range(s) == {s[i] : i \in DOMAIN s}

Last(s) == s[Len(s)]

IsPrefix(p, s) == Len(p) <= Len(s) /\ SubSeq(s, 1, Len(p)) = p

\* strings.Index: the position of the first tok in s, 0 when there is none
Index(s, tok) ==
    IF tok \in Range(s) THEN CHOOSE i \in DOMAIN s : s[i] = tok /\ \A j \in 1..(i - 1) : s[j] # tok
    ELSE 0

RECURSIVE Flatten(_)
Flatten(ss) == IF ss = <<>> THEN <<>> ELSE Head(ss) \o Flatten(Tail(ss))

(***************************************************************************)
(* package semver (not among the sources; modelled from its contract).     *)
(* A version is <<major, minor, patch>>; nil is <<>>.                      *)
(***************************************************************************)
NoVer == <<>>

VersionText == <<"1.8.0", "1.8.1", "9.0.0">>
VersionValue == << <<1, 8, 0>>, <<1, 8, 1>>, <<9, 0, 0>> >>
Versions == Range(VersionValue)

\* semver.ParseVersion: the version a text denotes, nil on a parse error
ParseVersion(text) ==
    IF Len(text) = 1 /\ text[1] \in Range(VersionText)
    THEN VersionValue[Index(VersionText, text[1])]
    ELSE NoVer

\* Version.String
VersionString(v) == VersionText[CHOOSE i \in DOMAIN VersionValue : VersionValue[i] = v]

VersionEquals(a, b) == a = b

\* VersionSlice.Less: the order of versions
VersionLess(a, b) ==
    \/ a[1] < b[1]
    \/ a[1] = b[1] /\ a[2] < b[2]
    \/ a[1] = b[1] /\ a[2] = b[2] /\ a[3] < b[3]

\* semver.ParseRange: [ok, op, v]; an exact version, ^version, ~version or *
NoRange == [ok |-> FALSE, op |-> "", v |-> NoVer]

ParseRange(text) ==
    CASE Len(text) = 1 /\ ParseVersion(text) # NoVer ->
            [ok |-> TRUE, op |-> "=", v |-> ParseVersion(text)]
      [] Len(text) = 1 /\ text[1] = "*" ->
            [ok |-> TRUE, op |-> "*", v |-> NoVer]
      [] Len(text) = 2 /\ text[1] \in {"^", "~"} /\ ParseVersion(Tail(text)) # NoVer ->
            [ok |-> TRUE, op |-> text[1], v |-> ParseVersion(Tail(text))]
      [] OTHER -> NoRange

\* Range.Contains
RangeContains(rng, v) ==
    CASE rng.op = "=" -> v = rng.v
      [] rng.op = "*" -> TRUE
      [] rng.op = "^" -> v[1] = rng.v[1] /\ ~VersionLess(v, rng.v)
      [] rng.op = "~" -> v[1] = rng.v[1] /\ v[2] = rng.v[2] /\ ~VersionLess(v, rng.v)
      [] OTHER -> FALSE

(***************************************************************************)
(* The filesystem.                                                         *)
(***************************************************************************)
Exists(f, p) == p \in DOMAIN f

IsFile(f, p) == Exists(f, p) /\ f[p] # "dir"

Prefixes(p) == {SubSeq(p, 1, n) : n \in 1..Len(p)}

\* mkdir -p / os.MkdirAll
MkdirAll(f, p) ==
    [q \in DOMAIN f \cup Prefixes(p) |-> IF q \in DOMAIN f THEN f[q] ELSE "dir"]

\* os.RemoveAll / rm -r: p and everything below it
RemoveAll(f, p) == [q \in {x \in DOMAIN f : ~IsPrefix(p, x)} |-> f[q]]

\* os.Remove of a file
Remove(f, p) == IF IsFile(f, p) THEN RemoveAll(f, p) ELSE f

\* writes a file (creating or truncating it)
WriteFile(f, p, kind) == [q \in DOMAIN f \cup {p} |-> IF q = p THEN kind ELSE f[q]]

\* the tree root/... with its root renamed to dest
Moved(f, root, dest) ==
    [q \in {dest \o SubSeq(x, Len(root) + 1, Len(x)) : x \in {y \in DOMAIN f : IsPrefix(root, y)}}
        |-> f[root \o SubSeq(q, Len(dest) + 1, Len(q))]]

\* mv src dest: into dest when dest is a directory, else renamed to dest
Mv(f, src, dest) ==
    LET to == IF Exists(f, dest) /\ f[dest] = "dir" THEN dest \o <<Last(src)>> ELSE dest
        m == Moved(f, src, to)
        rest == RemoveAll(f, src)
    IN [q \in DOMAIN rest \cup DOMAIN m |-> IF q \in DOMAIN m THEN m[q] ELSE rest[q]]

(***************************************************************************)
(* What the environment holds.                                             *)
(***************************************************************************)
\* cfg.Dir() (not among the sources): the install root
CfgDir == <<"jabba">>

\* os.TempDir()
TempRoot == <<"tmp">>

\* the names ioutil.TempFile("", "jabba-d-") and ioutil.TempDir("", "jabba-i-")
\* hand out: never one that was handed out before
TempFileNames == <<"jabba-d-1", "jabba-d-2", "jabba-d-3", "jabba-d-4", "jabba-d-5", "jabba-d-6", "jabba-d-7", "jabba-d-8">>
TempDirNames == <<"jabba-i-1", "jabba-i-2", "jabba-i-3", "jabba-i-4", "jabba-i-5", "jabba-i-6", "jabba-i-7", "jabba-i-8">>

\* what a readable archive unpacks to, below the directory it is unpacked in
ArchiveKinds == {"jdk", "nojava"}

Tree(kind) ==
    IF kind = "jdk"
    THEN (<<"bin">> :> "dir") @@ (<<"bin", "java">> :> "java") @@ (<<"release">> :> "text")
    ELSE (<<"release">> :> "text")

\* the files of Tree(kind) written below base (base and its parents made)
WriteTree(f, base, kind) ==
    LET g == MkdirAll(f, base)
        t == Tree(kind)
    IN [q \in DOMAIN g \cup {base \o r : r \in DOMAIN t} |->
            IF \E r \in DOMAIN t : q = base \o r
            THEN t[CHOOSE r \in DOMAIN t : q = base \o r]
            ELSE g[q]]

\* the local files a file:// URL may name, and what a remote URL serves
\* (by the last segment of its path; "down" is a host that cannot be reached)
LocalFiles ==
    (<<"good">> :> "jdk") @@ (<<"nojava">> :> "nojava") @@
    (<<"corrupt">> :> "corrupt") @@ (<<"apple">> :> "apple") @@ (<<"nopkg">> :> "nopkg")

RemoteContent(url) ==
    CASE Last(url) = "good" -> "jdk"
      [] Last(url) = "nojava" -> "nojava"
      [] Last(url) = "apple" -> "apple"
      [] Last(url) = "nopkg" -> "nopkg"
      [] OTHER -> "corrupt"

RemoteReachable(url) == Last(url) # "down"

\* the target directory of a version, and the home validated on each platform
TargetOf(verString) == CfgDir \o <<"jdk", verString>>

HomeOf(os, verString) ==
    IF os = "darwin" THEN TargetOf(verString) \o <<"Contents", "Home">> ELSE TargetOf(verString)

\* Ls() (not among the sources): the versions that have a directory below
\* <installRoot>/jdk
Ls(f) == {v \in Versions : Exists(f, TargetOf(VersionString(v)))}

(***************************************************************************)
(* The locals of one Install invocation.                                   *)
(***************************************************************************)
NoErr == <<>>

NoMap == <<>>

NoEnv == [lsOk |-> TRUE, remoteOk |-> TRUE, catalog |-> NoMap, order |-> <<>>]

Idle ==
    [pc |-> "idle", selector |-> <<>>, env |-> NoEnv, ver |-> NoVer, releaseMap |-> NoMap,
     url |-> <<>>, fileType |-> <<>>, file |-> <<>>, deleteFileWhenFinnished |-> FALSE,
     target |-> <<>>, tmp |-> <<>>, cmd |-> <<>>, err |-> NoErr, ret |-> <<>>,
     prefixToStrip |-> <<>>, cmds |-> <<>>, ran |-> <<>>,
     log |-> <<>>, source |-> <<>>, fs0 |-> <<>>, input |-> <<>>,
     wrote |-> {}, removed |-> {}]

\* what a step yields: the caller's locals, the filesystem, the temp counter
Out(s, f, n) == [s |-> s, fs |-> f, n |-> n]

Logged(s, event) == [s EXCEPT !.log = @ \o <<event>>]

\* return ret, err
Return(s, ret, err) == [s EXCEPT !.pc = "done", !.ret = ret, !.err = err, !.env = NoEnv]

(***************************************************************************)
(* Install, lines 23-52: the selector is parsed and an installed version   *)
(* is returned at once.                                                    *)
(***************************************************************************)
\* the slip of comparing the *semver.Version pointers, never equal
AlreadyInstalledByIdentity(ver, local) == FALSE

\* lines 47-51
AlreadyInstalled(ver, local) == \E v \in local : VersionEquals(ver, v)

InstallBegin(s0, f, n) ==
    LET pinned == "=" \in Range(s0.selector)
        i == Index(s0.selector, "=")
        selector == IF pinned THEN SubSeq(s0.selector, 1, i - 1) ELSE s0.selector
        ver == ParseVersion(selector)
        split2 == SubSeq(s0.selector, i + 1, Len(s0.selector))
        s1 == [s0 EXCEPT !.selector = selector, !.ver = ver,
                         !.source = IF pinned THEN split2 ELSE <<>>,
                         !.releaseMap = IF pinned /\ ver # NoVer THEN (ver :> split2) ELSE NoMap]
        s2 == IF ver # NoVer THEN Logged(s1, "Ls") ELSE s1
    IN  IF pinned /\ ver = NoVer
        THEN Out(Return(s1, <<>>, <<"Invalid version: ">> \o selector), f, n)
        ELSE IF ver # NoVer /\ ~s0.env.lsOk
        THEN Out(Return(s2, <<>>, <<"Ls failed">>), f, n)
        ELSE IF ver # NoVer /\ AlreadyInstalled(ver, Ls(f))
        THEN Out(Return(s2, <<VersionString(ver)>>, NoErr), f, n)
        ELSE Out([s2 EXCEPT !.pc = IF s2.releaseMap = NoMap THEN "resolve" ELSE "qualify"], f, n)

(***************************************************************************)
(* Install, lines 54-85: a range is resolved over the remote catalog.      *)
(***************************************************************************)
\* sort.Sort(sort.Reverse(semver.VersionSlice(vs))): greatest first
RECURSIVE InsertDescending(_, _)
InsertDescending(v, sorted) ==
    IF sorted = <<>> THEN <<v>>
    ELSE IF VersionLess(Head(sorted), v) THEN <<v>> \o sorted
    ELSE <<Head(sorted)>> \o InsertDescending(v, Tail(sorted))

RECURSIVE SortReverse(_)
SortReverse(vs) ==
    IF vs = <<>> THEN <<>> ELSE InsertDescending(Head(vs), SortReverse(Tail(vs)))

\* lines 71-76: the first version of vs the range contains, nil when none
RECURSIVE FirstContained(_, _)
FirstContained(rng, vs) ==
    IF vs = <<>> THEN NoVer
    ELSE IF RangeContains(rng, Head(vs)) THEN Head(vs)
    ELSE FirstContained(rng, Tail(vs))

\* the slip of scanning the versions in the order the map yields them
SelectVersionUnsorted(rng, order) == FirstContained(rng, order)

\* lines 64-76
SelectVersion(rng, order) == FirstContained(rng, SortReverse(order))

\* lines 78-83: the message listing every version of vs
RECURSIVE Join(_, _)
Join(tt, sep) ==
    IF tt = <<>> THEN <<>>
    ELSE IF Len(tt) = 1 THEN <<Head(tt)>>
    ELSE <<Head(tt), sep>> \o Join(Tail(tt), sep)

\* the slip of joining all but the last version
NoCompatibleVersionButLast(selector, vs) ==
    <<"No compatible version found for ">> \o selector \o <<"\nValid install targets: ">>
      \o Join([i \in 1..(Len(vs) - 1) |-> VersionString(vs[i])], ", ")

NoCompatibleVersion(selector, vs) ==
    <<"No compatible version found for ">> \o selector \o <<"\nValid install targets: ">>
      \o Join([i \in DOMAIN vs |-> VersionString(vs[i])], ", ")

Resolve(s0, f, n) ==
    LET rng == ParseRange(s0.selector)
        s1 == [s0 EXCEPT !.ver = NoVer]
        s2 == Logged(s1, "LsRemote")
        vs == SortReverse(s0.env.order)
        ver == SelectVersion(rng, s0.env.order)
    IN  IF ~rng.ok
        THEN Out(Return(s1, <<>>, <<"Invalid range: ">> \o s0.selector), f, n)
        ELSE IF ~s0.env.remoteOk
        THEN Out(Return(s2, <<>>, <<"LsRemote failed">>), f, n)
        ELSE IF ver = NoVer
        THEN Out(Return(s2, <<>>, NoCompatibleVersion(s0.selector, vs)), f, n)
        ELSE Out([s2 EXCEPT !.ver = ver, !.releaseMap = s0.env.catalog, !.pc = "qualify",
                            !.source = s0.env.catalog[ver], !.env = NoEnv], f, n)

(***************************************************************************)
(* Install, lines 86-91: the source must carry its archive type.           *)
(***************************************************************************)
\* the tokens \w matches
Words == {"tgz", "zip", "bin", "dmg", "rar", "file", "http", "host", "good", "nojava",
          "corrupt", "apple", "down", "missing"}

\* the slip of a pattern that asks for the scheme only
MatchesScheme(url) == "://" \in Range(url)

\* regexp.MatchString("^\\w+[+]\\w+://", url)
MatchesQualifier(url) ==
    \E i \in DOMAIN url : \E j \in DOMAIN url :
        /\ 1 < i /\ i + 1 < j
        /\ url[i] = "+" /\ url[j] = "://"
        /\ \A k \in 1..(j - 1) : k # i => url[k] \in Words

Qualify(s00, f, n) ==
    LET s0 == Logged(s00, "MatchString")
        url == s0.releaseMap[s0.ver]
        plus == Index(url, "+")
    IN  IF ~MatchesQualifier(url)
        THEN Out(Return([s0 EXCEPT !.url = url, !.releaseMap = NoMap], <<>>,
                        <<"URL must contain qualifier, e.g. tgz+http://...">>), f, n)
        ELSE Out([s0 EXCEPT !.fileType = SubSeq(url, 1, plus - 1),
                            !.url = SubSeq(url, plus + 1, Len(url)),
                            !.releaseMap = NoMap, !.pc = "acquire"], f, n)

(***************************************************************************)
(* download, lines 138-177.                                                *)
(***************************************************************************)
\* [file, err, fs, n]: the temporary file is made first and stays when the
\* request or the copy fails
download(url, f, n) ==
    LET file == TempRoot \o <<TempFileNames[n + 1]>>
    IN  IF ~Exists(f, TempRoot)
        THEN [file |-> <<>>, err |-> <<"TempFile: no such file or directory">>, fs |-> f, n |-> n]
        ELSE IF ~RemoteReachable(url)
        THEN [file |-> file, err |-> <<"Get ">> \o url \o <<": dial tcp: no route to host">>,
              fs |-> WriteFile(f, file, "empty"), n |-> n + 1]
        ELSE [file |-> file, err |-> NoErr,
              fs |-> WriteFile(f, file, RemoteContent(url)), n |-> n + 1]

(***************************************************************************)
(* Install, lines 92-103: the file is a local one or is downloaded.        *)
(***************************************************************************)
FileScheme == <<"file", "://">>

\* the slip of going on to the platform installer after a failed download
AcquireAndGoOn(s0, f, n) ==
    IF IsPrefix(FileScheme, s0.url)
    THEN Out([s0 EXCEPT !.file = SubSeq(s0.url, Len(FileScheme) + 1, Len(s0.url)),
                        !.pc = "dispatch"], f, n)
    ELSE LET d == download(s0.url, f, n)
             s1 == Logged(s0, "download")
         IN  Out([s1 EXCEPT !.file = d.file, !.err = d.err,
                            !.deleteFileWhenFinnished = (d.err = NoErr),
                            !.pc = "dispatch"], d.fs, d.n)

Acquire(s0, f, n) ==
    IF IsPrefix(FileScheme, s0.url)
    THEN Out([s0 EXCEPT !.file = SubSeq(s0.url, Len(FileScheme) + 1, Len(s0.url)),
                        !.pc = "dispatch"], f, n)
    ELSE LET d == download(s0.url, f, n)
             s1 == Logged(s0, "download")
         IN  IF d.err # NoErr
             THEN Out(Return([s1 EXCEPT !.file = d.file], <<>>, d.err), d.fs, d.n)
             ELSE Out([s1 EXCEPT !.file = d.file, !.deleteFileWhenFinnished = TRUE,
                                 !.pc = "dispatch"], d.fs, d.n)

(***************************************************************************)
(* The command lists of the extractors.  A command line is a sequence of   *)
(* words, each a sequence of tokens (a literal or a path).                 *)
(***************************************************************************)
Command(desc, line) == [desc |-> desc, line |-> line]

\* installFromTgz, lines 272-278
TgzCommands(source, target) ==
    << Command(<<>>, << <<"mkdir -p">>, target >>),
       Command(<<"Extracting ">> \o source \o <<" to ">> \o target,
               << <<"tar xvf">>, source, <<"--strip-components=1 -C">>, target >>) >>

\* installFromBin, lines 261-265
BinCommands(source, target, tmp) ==
    << Command(<<>>, << <<"mv">>, source, tmp >>),
       Command(<<"Extracting ">> \o tmp \o <<Last(source)>> \o <<" to ">> \o target,
               << <<"cd">>, tmp, <<"&& echo | sh">>, <<Last(source)>>, <<"&& mv jdk*/">>, target >>) >>

\* installFromDmg, lines 203-228
Mountpoint(tmp, source) == tmp \o <<Last(source)>>

Pkgdir(tmp, source) == tmp \o <<Last(source) \o "-pkg">>

\* the slip of a list that ends with the payload heuristics
DmgCommandsLeftMounted(source, target, tmp) ==
    LET mountpoint == Mountpoint(tmp, source)
        pkgdir == Pkgdir(tmp, source)
    IN  << Command(<<"Mounting ">> \o source,
                   << <<"hdiutil mount -mountpoint">>, mountpoint, source >>),
           Command(<<"Extracting ">> \o source \o <<" to ">> \o target,
                   << <<"pkgutil --expand">>, mountpoint, <<"/*.pkg">>, pkgdir >>),
           Command(<<>>, << <<"mkdir -p">>, target >>),
           Command(<<>>, << <<"if [ -f">>, pkgdir, <<"/jdk*.pkg/Payload ]; then tar xvf">>,
                            pkgdir, <<"/jdk*.pkg/Payload -C">>, target, <<"; fi">> >>),
           Command(<<>>, << <<"if [ -f">>, pkgdir, <<"/JavaForOSX.pkg/Payload ]; then tar xzf">>,
                            pkgdir, <<"/JavaForOSX.pkg/Payload -C">>, pkgdir, <<"&& mv">>,
                            pkgdir, <<"/Library/Java/JavaVirtualMachines/*/Contents">>,
                            target, <<"/Contents; fi">> >>) >>

DmgCommands(source, target, tmp) ==
    LET mountpoint == Mountpoint(tmp, source)
        pkgdir == Pkgdir(tmp, source)
    IN  << Command(<<"Mounting ">> \o source,
                   << <<"hdiutil mount -mountpoint">>, mountpoint, source >>),
           Command(<<"Extracting ">> \o source \o <<" to ">> \o target,
                   << <<"pkgutil --expand">>, mountpoint, <<"/*.pkg">>, pkgdir >>),
           Command(<<>>, << <<"mkdir -p">>, target >>),
           Command(<<>>, << <<"if [ -f">>, pkgdir, <<"/jdk*.pkg/Payload ]; then tar xvf">>,
                            pkgdir, <<"/jdk*.pkg/Payload -C">>, target, <<"; fi">> >>),
           Command(<<>>, << <<"if [ -f">>, pkgdir, <<"/JavaForOSX.pkg/Payload ]; then tar xzf">>,
                            pkgdir, <<"/JavaForOSX.pkg/Payload -C">>, pkgdir, <<"&& mv">>,
                            pkgdir, <<"/Library/Java/JavaVirtualMachines/*/Contents">>,
                            target, <<"/Contents; fi">> >>),
           Command(<<"Unmounting ">> \o source, << <<"hdiutil unmount">>, mountpoint >>) >>

(***************************************************************************)
(* What sh -c does with each command line: [ok, fs].                       *)
(***************************************************************************)
Done(ok, f) == [ok |-> ok, fs |-> f]

Readable(f, p) == IsFile(f, p) /\ f[p] \in ArchiveKinds

IsDir(f, p) == Exists(f, p) /\ f[p] = "dir"

Parent(p) == SubSeq(p, 1, Len(p) - 1)

\* tar xvf source --strip-components=1 -C target
ExecTar(f, source, target) ==
    IF Readable(f, source) /\ IsDir(f, target)
    THEN Done(TRUE, WriteTree(f, target, f[source]))
    ELSE Done(FALSE, f)

\* mv source tmp
ExecMv(f, source, tmp) ==
    IF Exists(f, source) /\ IsDir(f, tmp) THEN Done(TRUE, Mv(f, source, tmp)) ELSE Done(FALSE, f)

\* cd tmp && echo | sh base && mv jdk*/ target
ExecBin(f, tmp, base, target) ==
    LET script == tmp \o base
        jdk == tmp \o <<"jdk1.8">>
    IN  IF IsDir(f, tmp) /\ Readable(f, script) /\ IsDir(f, Parent(target))
        THEN Done(TRUE, Mv(WriteTree(f, jdk, f[script]), jdk, target))
        ELSE Done(FALSE, f)

\* hdiutil mount -mountpoint mountpoint source: the image holds one
\* installer package, or none ("nopkg")
ExecMount(f, mountpoint, source) ==
    IF IsFile(f, source) /\ f[source] \in ArchiveKinds \cup {"apple", "nopkg"} /\ ~Exists(f, mountpoint)
    THEN Done(TRUE, IF f[source] = "nopkg" THEN MkdirAll(f, mountpoint)
                    ELSE WriteFile(MkdirAll(f, mountpoint), mountpoint \o <<"image.pkg">>, f[source]))
    ELSE Done(FALSE, f)

\* pkgutil --expand mountpoint/*.pkg pkgdir
PkgName(kind) ==
    CASE kind = "jdk" -> "jdk1.8.pkg" [] kind = "apple" -> "JavaForOSX.pkg" [] OTHER -> "other.pkg"

ExecExpand(f, mountpoint, pkgdir) ==
    LET pkg == mountpoint \o <<"image.pkg">>
    IN  IF IsFile(f, pkg) /\ ~Exists(f, pkgdir)
        THEN Done(TRUE, WriteFile(MkdirAll(f, pkgdir \o <<PkgName(f[pkg])>>),
                                  pkgdir \o <<PkgName(f[pkg]), "Payload">>, f[pkg]))
        ELSE Done(FALSE, f)

\* if [ -f pkgdir/jdk*.pkg/Payload ]; then tar xvf pkgdir/jdk*.pkg/Payload -C target; fi
ExecOracle(f, pkgdir, target) ==
    LET payload == pkgdir \o <<"jdk1.8.pkg", "Payload">>
    IN  IF ~IsFile(f, payload) THEN Done(TRUE, f)
        ELSE IF IsDir(f, target)
        THEN Done(TRUE, WriteTree(f, target \o <<"Contents", "Home">>, "jdk"))
        ELSE Done(FALSE, f)

\* if [ -f pkgdir/JavaForOSX.pkg/Payload ]; then tar xzf ... -C pkgdir &&
\* mv pkgdir/Library/Java/JavaVirtualMachines/*/Contents target/Contents; fi
ExecApple(f, pkgdir, target) ==
    LET payload == pkgdir \o <<"JavaForOSX.pkg", "Payload">>
        contents == pkgdir \o <<"Library", "Java", "JavaVirtualMachines", "1.6.0.jdk", "Contents">>
    IN  IF ~IsFile(f, payload) THEN Done(TRUE, f)
        ELSE IF IsDir(f, target)
        THEN Done(TRUE, Mv(WriteTree(f, contents \o <<"Home">>, "jdk"), contents,
                           target \o <<"Contents">>))
        ELSE Done(FALSE, f)

\* hdiutil unmount mountpoint
ExecUnmount(f, mountpoint) ==
    IF IsDir(f, mountpoint) THEN Done(TRUE, RemoveAll(f, mountpoint)) ELSE Done(FALSE, f)

Exec(line, f) ==
    LET prog == line[1][1]
    IN  CASE prog = "mkdir -p" -> Done(TRUE, MkdirAll(f, line[2]))
          [] prog = "tar xvf" -> ExecTar(f, line[2], line[4])
          [] prog = "mv" -> ExecMv(f, line[2], line[3])
          [] prog = "cd" -> ExecBin(f, line[2], line[4], line[6])
          [] prog = "hdiutil mount -mountpoint" -> ExecMount(f, line[2], line[3])
          [] prog = "pkgutil --expand" -> ExecExpand(f, line[2], line[4])
          [] prog = "if [ -f" /\ line[5] = <<"/jdk*.pkg/Payload -C">> -> ExecOracle(f, line[2], line[6])
          [] prog = "if [ -f" /\ line[5] # <<"/jdk*.pkg/Payload -C">> -> ExecApple(f, line[2], line[10])
          [] prog = "hdiutil unmount" -> ExecUnmount(f, line[2])
          [] OTHER -> Done(FALSE, f)

(***************************************************************************)
(* Install, lines 104-111, with the head of installOnLinux (235-246) and   *)
(* installOnDarwin (179-188) and of the extractor they choose.             *)
(***************************************************************************)
NotSupported(what) == what \o <<" is not supported">>

\* ioutil.TempDir("", "jabba-i-"): [tmp, err, fs, n]
TempDir(f, n) ==
    LET tmp == TempRoot \o <<TempDirNames[n + 1]>>
    IN  IF ~Exists(f, TempRoot)
        THEN [tmp |-> <<>>, err |-> <<"TempDir: no such file or directory">>, fs |-> f, n |-> n]
        ELSE [tmp |-> tmp, err |-> NoErr, fs |-> MkdirAll(f, tmp), n |-> n + 1]

\* executeInShell(cmd) is entered
Shell(s, cmd) == [s EXCEPT !.cmd = cmd, !.cmds = cmd, !.pc = "shell"]

\* installFromBin (256-265) and installFromDmg (198-228) up to executeInShell
WithScratch(s0, f, n, dmg) ==
    LET t == TempDir(f, n)
    IN  IF t.err # NoErr
        THEN Out([s0 EXCEPT !.err = t.err, !.pc = "rollback"], f, n)
        ELSE Out(Shell([s0 EXCEPT !.tmp = t.tmp],
                       IF dmg THEN DmgCommands(s0.file, s0.target, t.tmp)
                       ELSE BinCommands(s0.file, s0.target, t.tmp)), t.fs, t.n)

installOnLinux(s0, f, n) ==
    LET s1 == Logged([s0 EXCEPT !.target = TargetOf(VersionString(s0.ver))], "installOnLinux")
    IN  CASE s1.fileType = <<"bin">> -> WithScratch(Logged(s1, "installFromBin"), f, n, FALSE)
          [] s1.fileType = <<"tgz">> ->
                Out(Shell(Logged(s1, "installFromTgz"), TgzCommands(s1.file, s1.target)), f, n)
          [] s1.fileType = <<"zip">> -> Out([Logged(s1, "installFromZip") EXCEPT !.pc = "unzip"], f, n)
          [] OTHER -> Out([s1 EXCEPT !.err = NotSupported(s1.fileType), !.pc = "finish"], f, n)

installOnDarwin(s0, f, n) ==
    LET s1 == Logged([s0 EXCEPT !.target = TargetOf(VersionString(s0.ver))], "installOnDarwin")
    IN  CASE s1.fileType = <<"dmg">> -> WithScratch(Logged(s1, "installFromDmg"), f, n, TRUE)
          [] s1.fileType = <<"zip">> -> Out([Logged(s1, "installFromZip") EXCEPT !.pc = "unzip"], f, n)
          [] OTHER -> Out([s1 EXCEPT !.err = NotSupported(s1.fileType), !.pc = "finish"], f, n)

\* the slip of taking every host that is not darwin for linux
DispatchLinuxByDefault(s0, f, n) ==
    IF goos = "darwin" THEN installOnDarwin(s0, f, n) ELSE installOnLinux(s0, f, n)

Dispatch(s0, f, n) ==
    CASE goos = "darwin" -> installOnDarwin(s0, f, n)
      [] goos = "linux" -> installOnLinux(s0, f, n)
      [] OTHER -> Out([s0 EXCEPT !.err = <<goos, " OS is not supported">>, !.pc = "finish"], f, n)

(***************************************************************************)
(* executeInShell, lines 339-351: one command per step; then the tail of   *)
(* installFromBin (266-269) and installFromDmg (229-232).                  *)
(***************************************************************************)
ShellError(line) == <<"'">> \o Flatten(line) \o <<"' failed: ", "exit status 1">>

\* the slip of leaving the scratch directory behind
KeepScratch(s, f) == f

\* lines 229-231 and 266-268: the scratch directory goes when nothing failed
RemoveScratch(s, f) == IF s.tmp # <<>> /\ s.err = NoErr THEN RemoveAll(f, s.tmp) ELSE f

\* the slip of going on with the next command after one failed
RemainingAfterAny(cmd, ok) == Tail(cmd)

\* lines 340-349: the commands still to run after the first of cmd
Remaining(cmd, ok) == IF ok THEN Tail(cmd) ELSE <<>>

ShellStep(s0, f, n) ==
    LET command == Head(s0.cmd)
        r == Exec(command.line, f)
        s1 == [Logged(s0, command.line[1][1]) EXCEPT
                    !.ran = @ \o <<[line |-> command.line, ok |-> r.ok]>>,
                    !.cmd = Remaining(s0.cmd, r.ok)]
        s2 == IF r.ok THEN s1 ELSE [s1 EXCEPT !.err = ShellError(command.line)]
    IN  IF s2.cmd # <<>>
        THEN Out(s2, r.fs, n)
        ELSE Out([s2 EXCEPT !.pc = IF s2.err = NoErr THEN "validate" ELSE "rollback"],
                 RemoveScratch(s2, r.fs), n)

(***************************************************************************)
(* installFromZip / unzip, lines 280-337.                                  *)
(***************************************************************************)
Home(s) == IF goos = "darwin" THEN s.target \o <<"Contents", "Home">> ELSE s.target

\* r.File of a zip archive: the entries, each a name (tokens, "/" among
\* them) and whether its mode is that of a directory
Entry(name, dir) == [name |-> name, dir |-> dir]

ZipEntries(kind) ==
    IF kind = "zip" THEN archive
    ELSE IF kind = "jdk"
    THEN << Entry(<<"wrapper", "/">>, TRUE), Entry(<<"wrapper", "/", "bin", "/">>, TRUE),
            Entry(<<"wrapper", "/", "bin", "/", "java">>, FALSE),
            Entry(<<"wrapper", "/", "release">>, FALSE) >>
    ELSE << Entry(<<"wrapper", "/">>, TRUE), Entry(<<"wrapper", "/", "README">>, FALSE),
            Entry(<<"wrapper", "/", "release">>, FALSE) >>

\* lines 296-304: the number of '/' in the name, one more for a file
Level(e) ==
    Cardinality({i \in DOMAIN e.name : e.name[i] = "/"}) + (IF e.dir THEN 0 ELSE 1)

\* lines 293-308: entriesPerLevel and prefixMap after the first loop
EntriesPerLevel(entries) ==
    [l \in {Level(entries[i]) : i \in DOMAIN entries} |->
        Cardinality({i \in DOMAIN entries : Level(entries[i]) = l})]

PrefixMap(entries) ==
    LET dirs == {i \in DOMAIN entries : entries[i].dir}
    IN  [l \in {Level(entries[i]) : i \in dirs} |->
            entries[CHOOSE i \in dirs :
                        Level(entries[i]) = l /\ \A j \in dirs : Level(entries[j]) = l => j <= i].name]

\* lines 291-315
PrefixToStrip(entries, strip) ==
    LET entriesPerLevel == EntriesPerLevel(entries)
        prefixMap == PrefixMap(entries)
        hits == {i \in 0..(Cardinality(DOMAIN entriesPerLevel) - 1) :
                    i \in DOMAIN entriesPerLevel /\ entriesPerLevel[i] > 1 /\ i > 0}
        first == CHOOSE i \in hits : \A j \in hits : i <= j
    IN  IF ~strip \/ hits = {} THEN <<>>
        ELSE IF (first - 1) \in DOMAIN prefixMap THEN prefixMap[first - 1] ELSE <<>>

\* strings.TrimPrefix
TrimPrefix(s, prefix) == IF IsPrefix(prefix, s) THEN SubSeq(s, Len(prefix) + 1, Len(s)) ELSE s

\* path.Join(target, name)
RECURSIVE Components(_)
Components(name) ==
    IF name = <<>> THEN <<>>
    ELSE IF Head(name) = "/" THEN Components(Tail(name))
    ELSE <<Head(name)>> \o Components(Tail(name))

\* lines 316-335: the entries are written in turn, up to the first error
RECURSIVE WriteEntries(_, _, _, _, _)
WriteEntries(f, entries, prefixToStrip, target, kind) ==
    IF entries = <<>> THEN [err |-> NoErr, fs |-> f]
    ELSE LET e == Head(entries)
             to == target \o Components(TrimPrefix(e.name, prefixToStrip))
         IN  IF e.dir
             THEN WriteEntries(IF \E q \in Prefixes(to) : IsFile(f, q) THEN f ELSE MkdirAll(f, to),
                               Tail(entries), prefixToStrip, target, kind)
             ELSE IF IsDir(f, Parent(to)) /\ ~IsDir(f, to)
             THEN WriteEntries(WriteFile(f, to, IF Last(to) = "java" THEN "java" ELSE "text"),
                               Tail(entries), prefixToStrip, target, kind)
             ELSE [err |-> <<"open ">> \o to \o <<": no such file or directory">>, fs |-> f]

\* zip.OpenReader succeeds
IsZip(f, source) == Readable(f, source) \/ (IsFile(f, source) /\ f[source] = "zip")

\* [err, fs, prefixToStrip]
unzip(f, source, target, strip) ==
    IF IsZip(f, source)
    THEN LET prefixToStrip == PrefixToStrip(ZipEntries(f[source]), strip)
             w == WriteEntries(f, ZipEntries(f[source]), prefixToStrip, target, f[source])
         IN  [err |-> w.err, fs |-> w.fs, prefixToStrip |-> prefixToStrip]
    ELSE [err |-> <<"zip: not a valid zip file">>, fs |-> f, prefixToStrip |-> <<>>]

UnzipStep(s0, f, n) ==
    LET r == unzip(f, s0.file, Home(s0), TRUE)
    IN  Out([s0 EXCEPT !.err = r.err, !.prefixToStrip = r.prefixToStrip,
                       !.pc = IF r.err = NoErr THEN "validate" ELSE "rollback"],
            r.fs, n)

(***************************************************************************)
(* The tail of installOnLinux (247-253) and installOnDarwin (189-195).     *)
(***************************************************************************)
\* the slip of testing for the home directory instead of bin/java in it
assertHomeExists(f, target) ==
    IF Exists(f, target) THEN NoErr ELSE <<"<target>/bin/java wasn't found. ">>

\* assertContentIsValid, lines 353-361
assertContentIsValid(f, target) ==
    IF Exists(f, target \o <<"bin", "java">>) THEN NoErr ELSE <<"<target>/bin/java wasn't found. ">>

Validate(s0, f, n) ==
    LET err == assertContentIsValid(f, Home(s0))
        s1 == Logged(s0, "assertContentIsValid")
    IN  Out([s1 EXCEPT !.err = err, !.pc = IF err = NoErr THEN "finish" ELSE "rollback"], f, n)

\* the slip of leaving a failed target in place
RemoveTargetNever(s, f) == f

\* the slip of removing the directory the targets are in
RemoveTargetParent(s, f) == IF s.err # NoErr THEN RemoveAll(f, Parent(s.target)) ELSE f

\* lines 192-194 and 250-252
RemoveTarget(s, f) == IF s.err # NoErr THEN RemoveAll(f, s.target) ELSE f

Rollback(s0, f, n) ==
    Out([Logged(s0, "RemoveAll") EXCEPT !.pc = "finish"], RemoveTarget(s0, f), n)

(***************************************************************************)
(* Install, lines 112-115.                                                 *)
(***************************************************************************)
RemoveDownloaded(s, f) ==
    IF s.err = NoErr /\ s.deleteFileWhenFinnished THEN Remove(f, s.file) ELSE f

Finish(s0, f, n) ==
    Out(Return(IF s0.err = NoErr /\ s0.deleteFileWhenFinnished THEN Logged(s0, "Remove") ELSE s0,
               <<VersionString(s0.ver)>>, s0.err),
        RemoveDownloaded(s0, f), n)

(***************************************************************************)
(* One step of an invocation, by where it stands.                          *)
(***************************************************************************)
StepOf(s, f, n) ==
    CASE s.pc = "resolve" -> Resolve(s, f, n)
      [] s.pc = "qualify" -> Qualify(s, f, n)
      [] s.pc = "acquire" -> Acquire(s, f, n)
      [] s.pc = "dispatch" -> Dispatch(s, f, n)
      [] s.pc = "shell" -> ShellStep(s, f, n)
      [] s.pc = "unzip" -> UnzipStep(s, f, n)
      [] s.pc = "validate" -> Validate(s, f, n)
      [] s.pc = "rollback" -> Rollback(s, f, n)
      [] s.pc = "finish" -> Finish(s, f, n)
      [] OTHER -> Out(s, f, n)

(***************************************************************************)
(* The http.Client of download, lines 146-163: the requests made so far    *)
(* (via), the request to be sent next (req, its header), and the error     *)
(* that ended the chain.                                                   *)
(***************************************************************************)
\* a header is a set of <<attribute, value>> pairs, one per attribute
NoClient == [via |-> <<>>, req |-> {}, err |-> NoErr, state |-> "none"]

Attrs(header) == {h[1] : h \in header}

\* line 148
MaxRedirects == 10

\* line 162: req.Header.Set("Cookie", ...)
OriginalHeader == {<<"Cookie", "oraclelicense=accept-securebackup-cookie">>}

\* the header of the request net/http builds for a redirect, before
\* CheckRedirect sees it: none, a Referer, or a Cookie of its own
RedirectHeaders == { {}, {<<"Referer", "http://host/">>}, {<<"Cookie", "session=1">>} }

TooManyRedirects == <<"too many redirects">>

\* the slip of refusing one request too late
CheckRedirectOffByOne(req, via) ==
    IF Len(via) > MaxRedirects THEN [err |-> TooManyRedirects, req |-> req]
    ELSE IF Len(via) # 0
    THEN [err |-> NoErr, req |-> req \cup {h \in via[1] : h[1] \notin Attrs(req)}]
    ELSE [err |-> NoErr, req |-> req]

\* client.CheckRedirect, lines 147-160: [err, req]
CheckRedirect(req, via) ==
    IF Len(via) >= MaxRedirects THEN [err |-> TooManyRedirects, req |-> req]
    ELSE IF Len(via) # 0
    THEN [err |-> NoErr, req |-> req \cup {h \in via[1] : h[1] \notin Attrs(req)}]
    ELSE [err |-> NoErr, req |-> req]

(***************************************************************************)
(* The inputs: selectors, and what Ls and LsRemote answer.                 *)
(***************************************************************************)
Url(fileType, scheme, path) == <<fileType, "+", scheme, "://">> \o path

FileTypes == {"tgz", "zip", "bin", "dmg"}

PinUrls ==
    {Url(t, "file", <<c>>) : t \in FileTypes, c \in {"good", "nojava", "corrupt"}}
      \cup {Url(t, "http", <<"host", c>>) : t \in FileTypes, c \in {"good", "nojava", "corrupt"}}
      \cup { Url("dmg", "file", <<"apple">>), Url("dmg", "file", <<"nopkg">>),
             Url("rar", "file", <<"good">>),
             Url("rar", "http", <<"host", "good">>), Url("tgz", "http", <<"host", "down">>),
             Url("tgz", "file", <<"missing">>),
             <<"http", "://", "host", "good">>, <<"file", "://", "good">> }

\* a second version is pinned to a few sources only
OtherPinUrls ==
    {Url("bin", "file", <<"good">>), Url("tgz", "file", <<"good">>), Url("zip", "http", <<"host", "good">>)}

Pins == {<<"1.8.0", "=">> \o u : u \in PinUrls} \cup {<<"9.0.0", "=">> \o u : u \in OtherPinUrls}

Selectors ==
    Pins \cup {<<"1.8.0">>, <<"1.8.1">>, <<"9.0.0">>, <<"^", "1.8.0">>, <<"~", "9.0.0">>,
               <<"*">>, <<"latest">>, <<"^", "1.8.0", "=">> \o Url("tgz", "file", <<"good">>)}

\* LsRemote() (not among the sources): a map from versions to sources
CatalogA ==
    (<<1, 8, 0>> :> Url("tgz", "http", <<"host", "good">>)) @@
    (<<1, 8, 1>> :> Url("zip", "http", <<"host", "good">>)) @@
    (<<9, 0, 0>> :> Url("dmg", "http", <<"host", "good">>))

CatalogB ==
    (<<1, 8, 0>> :> <<"http", "://", "host", "good">>) @@
    (<<1, 8, 1>> :> Url("rar", "http", <<"host", "good">>)) @@
    (<<9, 0, 0>> :> Url("bin", "http", <<"host", "corrupt">>))

Restrict(c, D) == [v \in D |-> c[v]]

Catalogs == {Restrict(c, D) : c \in {CatalogA, CatalogB}, D \in SUBSET Versions}

\* the orders in which ranging over a map may visit its keys
Orders(c) == {o \in [1..Cardinality(DOMAIN c) -> DOMAIN c] : Range(o) = DOMAIN c}

Envs ==
    {[NoEnv EXCEPT !.lsOk = FALSE], [NoEnv EXCEPT !.remoteOk = FALSE]}
      \cup UNION {{[NoEnv EXCEPT !.catalog = c, !.order = o] : o \in Orders(c)} : c \in Catalogs}

(***************************************************************************)
(* The initial states: a host, its local files, and what was installed     *)
(* before.                                                                 *)
(***************************************************************************)
Hosts == {"linux", "darwin", "windows"}

BaseFs == (CfgDir :> "dir") @@ (CfgDir \o <<"jdk">> :> "dir") @@ LocalFiles

\* 1.8.1 was installed before
Installed(f, os) == WriteTree(f, HomeOf(os, "1.8.1"), "jdk")

Init ==
    /\ goos \in Hosts
    /\ \E withTmp \in BOOLEAN :
          fs = Installed(IF withTmp THEN MkdirAll(BaseFs, TempRoot) ELSE BaseFs, goos)
    /\ st = [p \in Procs |-> Idle]
    /\ nextTmp = 0
    /\ calls = 0
    /\ archive = <<>>
    /\ client = NoClient

(***************************************************************************)
(* The actions: one per step of Install.                                   *)
(***************************************************************************)
\* for an invocation that may run beside another: the paths it made or
\* wrote and the paths it moved away or removed are noted
Noted(s, f, g) ==
    IF s.input = <<>> THEN s
    ELSE [s EXCEPT !.wrote = @ \cup {q \in DOMAIN g : q \notin DOMAIN f \/ f[q] # g[q]},
                   !.removed = @ \cup (DOMAIN f \ DOMAIN g)]

Apply(p, r) ==
    /\ st' = [st EXCEPT ![p] = Noted(r.s, fs, r.fs)]
    /\ fs' = r.fs
    /\ nextTmp' = r.n
    /\ UNCHANGED <<goos, archive, client>>

\* with one invocation at a time it makes no difference which caller it is
Caller == CHOOSE p \in Procs : TRUE

\* Install is called with a selector
Begin(p, selector, env, remember) ==
    LET r == InstallBegin([Idle EXCEPT !.selector = selector, !.env = env, !.fs0 = fs,
                                       !.input = IF remember THEN <<[selector |-> selector, env |-> env, n |-> nextTmp]>>
                                                 ELSE <<>>],
                          fs, nextTmp)
    IN  /\ r.s.pc = "resolve" \/ env = NoEnv
        /\ Apply(p, r)
        /\ calls' = calls + 1

Install(p) ==
    /\ p = Caller
    /\ \A q \in Procs : st[q].pc = "idle"
    /\ calls < MaxCalls
    /\ \E selector \in Selectors : \E env \in Envs \cup {NoEnv} : Begin(p, selector, env, FALSE)

ResolveVersion(p) ==
    st[p].pc = "resolve" /\ Apply(p, Resolve(st[p], fs, nextTmp)) /\ UNCHANGED calls

CheckQualifier(p) ==
    st[p].pc = "qualify" /\ Apply(p, Qualify(st[p], fs, nextTmp)) /\ UNCHANGED calls

AcquireFile(p) ==
    st[p].pc = "acquire" /\ Apply(p, Acquire(st[p], fs, nextTmp)) /\ UNCHANGED calls

DispatchPlatform(p) ==
    st[p].pc = "dispatch" /\ Apply(p, Dispatch(st[p], fs, nextTmp)) /\ UNCHANGED calls

ExecuteInShell(p) ==
    st[p].pc = "shell" /\ Apply(p, ShellStep(st[p], fs, nextTmp)) /\ UNCHANGED calls

InstallFromZip(p) ==
    st[p].pc = "unzip" /\ Apply(p, UnzipStep(st[p], fs, nextTmp)) /\ UNCHANGED calls

AssertContent(p) ==
    st[p].pc = "validate" /\ Apply(p, Validate(st[p], fs, nextTmp)) /\ UNCHANGED calls

RemoveTargetTree(p) ==
    st[p].pc = "rollback" /\ Apply(p, Rollback(st[p], fs, nextTmp)) /\ UNCHANGED calls

InstallReturn(p) ==
    st[p].pc = "finish" /\ Apply(p, Finish(st[p], fs, nextTmp)) /\ UNCHANGED calls

\* the caller is done with what Install returned
Exit(p) ==
    /\ st[p].pc = "done"
    /\ st' = [st EXCEPT ![p] = Idle]
    /\ UNCHANGED <<goos, fs, nextTmp, calls, archive, client>>

Next ==
    \E p \in Procs :
        \/ Install(p)
        \/ ResolveVersion(p)
        \/ CheckQualifier(p)
        \/ AcquireFile(p)
        \/ DispatchPlatform(p)
        \/ ExecuteInShell(p)
        \/ InstallFromZip(p)
        \/ AssertContent(p)
        \/ RemoveTargetTree(p)
        \/ InstallReturn(p)
        \/ Exit(p)

\* Install invocations one after the other
Spec == Init /\ [][Next]_vars

(***************************************************************************)
(* Two callers, each invoking Install once, their steps interleaved.       *)
(***************************************************************************)
ConcurrentSelectors ==
    { <<"1.8.0", "=">> \o Url("bin", "file", <<"good">>),
      <<"9.0.0", "=">> \o Url("bin", "file", <<"good">>),
      <<"9.0.0", "=">> \o Url("tgz", "file", <<"good">>),
      <<"9.0.0", "=">> \o Url("zip", "http", <<"host", "good">>),
      <<"1.8.0", "=">> \o Url("dmg", "http", <<"host", "good">>),
      <<"1.8.0", "=">> \o Url("tgz", "http", <<"host", "nojava">>),
      <<"1.8.0", "=">> \o Url("tgz", "http", <<"host", "good">>),
      <<"^", "1.8.0">> }

ConcurrentEnvs ==
    {NoEnv, [NoEnv EXCEPT !.catalog = CatalogA, !.order = << <<1, 8, 0>>, <<9, 0, 0>>, <<1, 8, 1>> >>]}

InstallConcurrently(p) ==
    /\ st[p].pc = "idle"
    /\ calls < MaxCalls
    /\ \E selector \in ConcurrentSelectors : \E env \in ConcurrentEnvs :
            Begin(p, selector, env, TRUE)

NextConcurrent ==
    \E p \in Procs :
        \/ InstallConcurrently(p)
        \/ ResolveVersion(p)
        \/ CheckQualifier(p)
        \/ AcquireFile(p)
        \/ DispatchPlatform(p)
        \/ ExecuteInShell(p)
        \/ InstallFromZip(p)
        \/ AssertContent(p)
        \/ RemoveTargetTree(p)
        \/ InstallReturn(p)

SpecConcurrent == Init /\ [][NextConcurrent]_vars

(***************************************************************************)
(* Install of a version pinned to a local zip archive, over the archives   *)
(* of up to MaxEntries entries.                                            *)
(***************************************************************************)
ArchivePath == <<"archive">>

ZipDirs == { <<"W", "/">>, <<"W", "/", "a", "/">>, <<"a", "/">>, <<"b", "/">> }

ZipFiles ==
    { <<"W", "/", "f">>, <<"W", "/", "g">>, <<"W", "/", "a", "/", "f">>,
      <<"a", "/", "f">>, <<"b", "/", "g">>, <<"f">> }

ZipEntrySet == {Entry(name, TRUE) : name \in ZipDirs} \cup {Entry(name, FALSE) : name \in ZipFiles}

\* no two entries of an archive are the same
Archives ==
    UNION {{z \in [1..n -> ZipEntrySet] : \A i \in 1..n : \A j \in 1..n : z[i] = z[j] => i = j} :
            n \in 0..MaxEntries}

ArchiveSelector == <<"1.8.0", "=">> \o Url("zip", "file", ArchivePath)

InitUnzip ==
    /\ goos \in Hosts
    /\ fs = Installed(MkdirAll(BaseFs, TempRoot), goos) @@ (ArchivePath :> "zip")
    /\ st = [p \in Procs |-> Idle]
    /\ nextTmp = 0
    /\ calls = 0
    /\ archive \in Archives
    /\ client = NoClient

InstallArchive(p) ==
    /\ p = Caller
    /\ st[p].pc = "idle"
    /\ calls < 1
    /\ Begin(p, ArchiveSelector, NoEnv, FALSE)

NextUnzip ==
    \E p \in Procs :
        \/ InstallArchive(p)
        \/ CheckQualifier(p)
        \/ AcquireFile(p)
        \/ DispatchPlatform(p)
        \/ InstallFromZip(p)
        \/ AssertContent(p)
        \/ RemoveTargetTree(p)
        \/ InstallReturn(p)

SpecUnzip == InitUnzip /\ [][NextUnzip]_vars

(***************************************************************************)
(* client.Do(req) of download, line 163: the request is sent; the server   *)
(* answers with the content or with a redirect, for which net/http builds  *)
(* the next request and asks CheckRedirect.                                *)
(***************************************************************************)
InitRedirect ==
    /\ goos = "linux"
    /\ fs = WriteFile(Installed(MkdirAll(BaseFs, TempRoot), goos),
                      TempRoot \o <<TempFileNames[1]>>, "empty")
    /\ st = [p \in Procs |-> Idle]
    /\ nextTmp = 1
    /\ calls = 0
    /\ archive = <<>>
    /\ client = [via |-> <<>>, req |-> OriginalHeader, err |-> NoErr, state |-> "send"]

\* RedirectTracer.RoundTrip, lines 122-136: the request goes out as it is
RoundTrip ==
    /\ client.state = "send"
    /\ \/ client' = [client EXCEPT !.via = Append(@, client.req), !.state = "done"]
       \/ \E header \in RedirectHeaders :
            client' = [client EXCEPT !.via = Append(@, client.req), !.req = header,
                                     !.state = "check"]
    /\ UNCHANGED <<goos, fs, st, nextTmp, calls, archive>>

FollowOrRefuse ==
    /\ client.state = "check"
    /\ LET r == CheckRedirect(client.req, client.via)
       IN  client' = [client EXCEPT !.req = r.req, !.err = r.err,
                                    !.state = IF r.err = NoErr THEN "send" ELSE "done"]
    /\ UNCHANGED <<goos, fs, st, nextTmp, calls, archive>>

NextRedirect == RoundTrip \/ FollowOrRefuse

SpecRedirect == InitRedirect /\ [][NextRedirect]_vars

(***************************************************************************)
(* An invocation run on its own, from the filesystem it started on.        *)
(***************************************************************************)
RECURSIVE RunToReturn(_)
RunToReturn(r) == IF r.s.pc = "done" THEN r ELSE RunToReturn(StepOf(r.s, r.fs, r.n))

RunAlone(s) ==
    LET in == s.input[1]
    IN  RunToReturn(InstallBegin([Idle EXCEPT !.selector = in.selector, !.env = in.env],
                                 s.fs0, in.n))

(***************************************************************************)
(* What the properties speak of.                                           *)
(***************************************************************************)
Returned(p) == st[p].pc = "done"

Invoked(p, what) == what \in Range(st[p].log)

PlatformInstallerInvoked(p) == Invoked(p, "installOnLinux") \/ Invoked(p, "installOnDarwin")

Extractors == {"installFromBin", "installFromTgz", "installFromZip", "installFromDmg"}

ExtractorInvoked(p) == \E e \in Extractors : Invoked(p, e)

\* Install returned through the already-installed short-circuit
ShortCircuited(p) == Returned(p) /\ st[p].err = NoErr /\ st[p].log = <<"Ls">>

TargetExists(p) == Exists(fs, TargetOf(VersionString(st[p].ver)))

JavaExists(p) == Exists(fs, HomeOf(goos, VersionString(st[p].ver)) \o <<"bin", "java">>)

\* the part of a filesystem below a directory
Below(f, dir) == [q \in {x \in DOMAIN f : IsPrefix(dir, x)} |-> f[q]]

\* a source of the form <word>+<scheme>://...
Qualified(source) == \E t \in Words : \E scheme \in Words : IsPrefix(<<t, "+", scheme, "://">>, source)

\* the path a source of the form <word>+file://<path> names
LocalSource(source) == Qualified(source) /\ source[3] = "file"

LocalPath(source) == SubSeq(source, 5, Len(source))

(***************************************************************************)
(* C1 as stated: whenever Install returns an error after the platform      *)
(* installer was invoked, no directory exists at <installRoot>/jdk/<ver>.  *)
(***************************************************************************)
C1_NoTargetAfterAnyPlatformError ==
    \A p \in Procs :
        Returned(p) /\ st[p].err # NoErr /\ PlatformInstallerInvoked(p) => ~TargetExists(p)

(***************************************************************************)
(* C1 as amended: whenever Install returns an error after the platform     *)
(* installer invoked an extractor (the archive type is one the platform    *)
(* supports), be it extraction or validation that failed, no directory     *)
(* exists at <installRoot>/jdk/<version> when Install returns.             *)
(***************************************************************************)
C1_NoTargetAfterFailedExtraction ==
    \A p \in Procs :
        Returned(p) /\ st[p].err # NoErr /\ ExtractorInvoked(p) => ~TargetExists(p)

\* a validation failure over a written target, and the target gone
C1_Witness ==
    \E p \in Procs :
        /\ Returned(p) /\ st[p].err # NoErr
        /\ Invoked(p, "assertContentIsValid") /\ Invoked(p, "RemoveAll")
        /\ ~TargetExists(p)

(***************************************************************************)
(* C2: an Install that performed an installation and returns nil leaves    *)
(* <home>/bin/java in place, and an error, once raised, is the error       *)
(* Install returns: no failed run returns nil.                             *)
(***************************************************************************)
ErrorKept(p) == st[p].err # NoErr /\ st[p].pc # "done" => st'[p].err = st[p].err

C2_SuccessMeansJavaInstalled ==
    /\ [](\A p \in Procs :
            Returned(p) /\ st[p].err = NoErr /\ ~ShortCircuited(p)
                => JavaExists(p) /\ st[p].ret = <<VersionString(st[p].ver)>>
                    /\ Invoked(p, "assertContentIsValid") /\ ~Invoked(p, "RemoveAll"))
    /\ [][\A p \in Procs : ErrorKept(p)]_vars

C2_Witness ==
    \E p \in Procs :
        Returned(p) /\ st[p].err = NoErr /\ ExtractorInvoked(p) /\ JavaExists(p)

(***************************************************************************)
(* C3: when a range is resolved over a catalog in which some version       *)
(* satisfies it, the version chosen is the greatest one that does,         *)
(* in whatever order the catalog was ranged over.                          *)
(***************************************************************************)
Matching(rng, catalog) == {v \in DOMAIN catalog : RangeContains(rng, v)}

ResolvesToGreatest(p) ==
    LET rng == ParseRange(st[p].selector)
        M == Matching(rng, st[p].env.catalog)
    IN  st[p].pc = "resolve" /\ st'[p].pc # "resolve" /\ rng.ok /\ st[p].env.remoteOk /\ M # {}
            => /\ st'[p].pc = "qualify"
               /\ st'[p].ver \in M
               /\ \A v \in M : ~VersionLess(st'[p].ver, v)

C3_ResolvesToGreatestMatch == [][\A p \in Procs : ResolvesToGreatest(p)]_vars

\* ^1.8.0 over a catalog holding 9.0.0 was resolved to 1.8.1
C3_Witness ==
    \E p \in Procs :
        /\ st[p].pc = "qualify" /\ Invoked(p, "LsRemote")
        /\ st[p].selector = <<"^", "1.8.0">>
        /\ DOMAIN st[p].releaseMap = Versions
        /\ st[p].ver = <<1, 8, 1>>

(***************************************************************************)
(* C4: a selector that is an exact version (plain or pinned) found among   *)
(* the installed versions makes Install return that version and nil, with  *)
(* nothing but Ls invoked and the filesystem as it was.                    *)
(***************************************************************************)
C4_InstalledVersionIsNoOp ==
    \A p \in Procs :
        LET ver == ParseVersion(st[p].selector)
        IN  /\ st[p].pc # "idle" /\ ver # NoVer /\ ver \in Ls(st[p].fs0)
            /\ st[p].err # <<"Ls failed">>
            => /\ Returned(p)
               /\ st[p].ret = <<VersionString(ver)>> /\ st[p].err = NoErr
               /\ st[p].log = <<"Ls">>
               /\ fs = st[p].fs0

\* the second Install of 1.8.0, which the first one installed
C4_Witness ==
    \E p \in Procs :
        /\ ShortCircuited(p) /\ st[p].ver = <<1, 8, 0>> /\ st[p].ret = <<"1.8.0">>
        /\ JavaExists(p)

(***************************************************************************)
(* C5 as stated: for a source without an archive-type qualifier Install    *)
(* fails, and download is never invoked.                                   *)
(***************************************************************************)
Unqualified(p) == st[p].source # <<>> /\ ~Qualified(st[p].source)

C5_UnqualifiedSourceFails ==
    \A p \in Procs :
        Returned(p) /\ Unqualified(p) => st[p].err # NoErr /\ ~Invoked(p, "download")

(***************************************************************************)
(* C5 as amended: for a source without an archive-type qualifier download  *)
(* is never invoked, and Install fails unless the version the selector     *)
(* pins is already installed, in which case it returns that version.       *)
(***************************************************************************)
C5_UnqualifiedSourceNeverDownloads ==
    \A p \in Procs :
        /\ Unqualified(p) => ~Invoked(p, "download") /\ st[p].file = <<>>
        /\ Returned(p) /\ Unqualified(p) => st[p].err # NoErr \/ ShortCircuited(p)

C5_Witness ==
    \E p \in Procs :
        /\ Returned(p) /\ Unqualified(p)
        /\ st[p].err = <<"URL must contain qualifier, e.g. tgz+http://...">>

(***************************************************************************)
(* C6 as stated: on a host that is neither darwin nor linux Install fails  *)
(* with an error naming the host, no extractor is invoked and no target    *)
(* directory is made.                                                      *)
(***************************************************************************)
Unsupported == goos \notin {"darwin", "linux"}

TargetsUnchanged(p) == Below(fs, CfgDir) = Below(st[p].fs0, CfgDir)

C6_UnsupportedHostFails ==
    \A p \in Procs :
        Unsupported /\ Returned(p)
            => /\ st[p].err # NoErr /\ goos \in Range(st[p].err)
               /\ ~ExtractorInvoked(p) /\ TargetsUnchanged(p)

(***************************************************************************)
(* C6 as amended: on a host that is neither darwin nor linux no call       *)
(* invokes an extractor or makes a target directory; a call that gets as   *)
(* far as the platform dispatch fails with an error naming the host, and   *)
(* a call returns nil only for a version that is already installed.        *)
(***************************************************************************)
ReachedDispatch(p) ==
    st[p].fileType # <<>> /\ (st[p].deleteFileWhenFinnished \/ IsPrefix(FileScheme, st[p].url))

C6_UnsupportedHostNeverExtracts ==
    \A p \in Procs :
        Unsupported /\ st[p].pc # "idle"
            => /\ ~ExtractorInvoked(p) /\ ~PlatformInstallerInvoked(p) /\ TargetsUnchanged(p)
               /\ Returned(p) /\ ReachedDispatch(p)
                    => st[p].err # NoErr /\ goos \in Range(st[p].err)
               /\ Returned(p) /\ st[p].err = NoErr => ShortCircuited(p)

C6_Witness ==
    \E p \in Procs :
        /\ Unsupported /\ Returned(p) /\ st[p].deleteFileWhenFinnished
        /\ st[p].err = <<goos, " OS is not supported">>

(***************************************************************************)
(* C7: for a file:// source download is never invoked and the local file   *)
(* is still at its path when Install returns, whatever the archive type.   *)
(***************************************************************************)
C7_LocalFileLeftInPlace ==
    \A p \in Procs :
        /\ Returned(p) /\ LocalSource(st[p].source)
        /\ Exists(st[p].fs0, LocalPath(st[p].source))
        => /\ ~Invoked(p, "download")
           /\ Exists(fs, LocalPath(st[p].source))

(***************************************************************************)
(* C8: a downloaded file is still at the path download returned when       *)
(* Install returns an error; it is removed only when Install succeeded.    *)
(***************************************************************************)
C8_DownloadKeptOnFailure ==
    \A p \in Procs :
        Returned(p) /\ st[p].deleteFileWhenFinnished /\ st[p].err # NoErr
            => Exists(fs, st[p].file)

(***************************************************************************)
(* C9: after an Install that ran the pipeline and returned nil nothing it  *)
(* made below the temporary directory remains: not the downloaded file,    *)
(* not the scratch directory of the bin or dmg extractor.                  *)
(***************************************************************************)
C9_NoTemporaryLeftOnSuccess ==
    \A p \in Procs :
        Returned(p) /\ st[p].err = NoErr /\ PlatformInstallerInvoked(p)
            => /\ Below(fs, TempRoot) = Below(st[p].fs0, TempRoot)
               /\ st[p].deleteFileWhenFinnished => ~Exists(fs, st[p].file)
               /\ st[p].tmp # <<>> => ~Exists(fs, st[p].tmp)

\* a downloaded archive that was unpacked in a scratch directory
C9_Witness ==
    \E p \in Procs :
        /\ Returned(p) /\ st[p].err = NoErr
        /\ st[p].deleteFileWhenFinnished /\ st[p].tmp # <<>>
        /\ Invoked(p, "download")

(***************************************************************************)
(* C10: two Install invocations that resolve to different versions, their  *)
(* steps interleaved in any way: neither writes, moves or removes a path   *)
(* the other makes or writes, and each returns what it returns, and leaves *)
(* the target tree it leaves, when run on its own.                         *)
(***************************************************************************)
\* what kind of error it is (the command that failed, not the paths it names)
ErrorClass(err) == SubSeq(err, 1, IF Len(err) < 2 THEN Len(err) ELSE 2)

SameAsAlone(p) ==
    LET alone == RunAlone(st[p])
        target == TargetOf(VersionString(st[p].ver))
    IN  /\ st[p].ret = alone.s.ret
        /\ ErrorClass(st[p].err) = ErrorClass(alone.s.err)
        /\ Below(fs, target) = Below(alone.fs, target)

ResolvedDifferently(p, q) ==
    /\ p # q /\ Returned(p) /\ Returned(q)
    /\ st[p].ver # NoVer /\ st[q].ver # NoVer /\ st[p].ver # st[q].ver

C10_DifferentVersionsDoNotInterfere ==
    \A p \in Procs : \A q \in Procs :
        ResolvedDifferently(p, q)
            => /\ (st[p].wrote \cup st[p].removed) \cap st[q].wrote = {}
               /\ SameAsAlone(p)

(***************************************************************************)
(* What the properties of zip extraction speak of.                         *)
(***************************************************************************)
\* unzip has just returned to the platform installer
JustUnzipped(p) ==
    /\ Invoked(p, "installFromZip") /\ ~Invoked(p, "assertContentIsValid")
    /\ st[p].pc \in {"validate", "rollback"}
    /\ st[p].err # <<"zip: not a valid zip file">>

\* the top-level names of an archive, and the rest of an entry's name
TopLevel(entries) == {entries[i].name[1] : i \in DOMAIN entries}

Beneath(entries, W) == {i \in DOMAIN entries : entries[i].name # <<W, "/">>}

WrappedIn(entries, W) ==
    /\ \A i \in DOMAIN entries : IsPrefix(<<W, "/">>, entries[i].name)
    /\ Cardinality(Beneath(entries, W)) > 1

\* the entry named name is at path to: a directory for a directory entry,
\* a file for a file entry
WrittenTo(e, to) == IF e.dir THEN IsDir(fs, to) ELSE IsFile(fs, to)

PathOf(name) == SelectSeq(name, LAMBDA tok : tok # "/")

(***************************************************************************)
(* C11: for an archive whose entries all lie inside one top-level          *)
(* directory W, with more than one entry beneath it, unzip writes every    *)
(* entry W/p to <target>/p and writes nothing under <target>/W.            *)
(***************************************************************************)
C11_SingleTopDirectoryIsStripped ==
    \A p \in Procs : \A W \in {"W", "a", "b"} :
        JustUnzipped(p) /\ WrappedIn(archive, W)
            => /\ \A i \in Beneath(archive, W) :
                    WrittenTo(archive[i], Home(st[p]) \o Tail(PathOf(archive[i].name)))
               /\ ~Exists(fs, Home(st[p]) \o <<W>>)

(***************************************************************************)
(* C12: for an archive with more than one top-level entry unzip strips     *)
(* nothing: every entry with path p is written to <target>/p.              *)
(***************************************************************************)
C12_SeveralTopEntriesKeptAsTheyAre ==
    \A p \in Procs :
        JustUnzipped(p) /\ Cardinality(TopLevel(archive)) > 1
            => /\ st[p].prefixToStrip = <<>>
               /\ \A i \in DOMAIN archive :
                    WrittenTo(archive[i], Home(st[p]) \o PathOf(archive[i].name))

(***************************************************************************)
(* C16: the prefix unzip strips is the one the specified algorithm yields: *)
(* with i the smallest depth greater than 0, among the depths from 0 up to *)
(* the largest depth present, at which more than one entry exists, the     *)
(* name of the last directory entry at depth i-1 (empty when there is      *)
(* none); empty when there is no such depth.                               *)
(***************************************************************************)
Depth(e) == Len(SelectSeq(e.name, LAMBDA tok : tok = "/")) + (IF e.dir THEN 0 ELSE 1)

At(entries, d) == {i \in DOMAIN entries : Depth(entries[i]) = d}

SpecifiedPrefix(entries) ==
    LET largest == CHOOSE d \in {Depth(entries[i]) : i \in DOMAIN entries} :
                        \A i \in DOMAIN entries : Depth(entries[i]) <= d
        crowded == {d \in 1..largest : Cardinality(At(entries, d)) > 1}
        i == CHOOSE d \in crowded : \A c \in crowded : d <= c
        dirs == {j \in At(entries, i - 1) : entries[j].dir}
    IN  IF entries = <<>> THEN <<>>
        ELSE IF crowded = {} \/ dirs = {} THEN <<>>
        ELSE entries[CHOOSE j \in dirs : \A k \in dirs : k <= j].name

C16_StripsTheSpecifiedPrefix ==
    \A p \in Procs : JustUnzipped(p) => st[p].prefixToStrip = SpecifiedPrefix(archive)

(***************************************************************************)
(* C13: when the selector is resolved as a range over a catalog none of    *)
(* whose versions satisfies it, Install returns no version and an error    *)
(* whose message lists every version of the catalog, each exactly once,    *)
(* as the valid install targets; neither download nor an extractor is      *)
(* invoked.                                                                *)
(***************************************************************************)
ValidTargets == "\nValid install targets: "

\* the part of the message after "Valid install targets: "
TargetsListed(err) == SubSeq(err, Index(err, ValidTargets) + 1, Len(err))

Times(s, tok) == Cardinality({i \in DOMAIN s : s[i] = tok})

ListsEachOnce(err, catalog) ==
    /\ ValidTargets \in Range(err)
    /\ \A v \in DOMAIN catalog : Times(TargetsListed(err), VersionString(v)) = 1
    /\ \A tok \in Range(TargetsListed(err)) :
            tok = ", " \/ \E v \in DOMAIN catalog : tok = VersionString(v)

NoneSatisfies(p) ==
    LET rng == ParseRange(st[p].selector)
    IN  /\ st[p].pc = "resolve" /\ st'[p].pc # "resolve"
        /\ rng.ok /\ st[p].env.remoteOk /\ Matching(rng, st[p].env.catalog) = {}

FailsListingTargets(p) ==
    NoneSatisfies(p)
        => /\ st'[p].pc = "done" /\ st'[p].ret = <<>> /\ st'[p].err # NoErr
           /\ IsPrefix(<<"No compatible version found for ">> \o st[p].selector, st'[p].err)
           /\ ListsEachOnce(st'[p].err, st[p].env.catalog)
           /\ fs' = fs

NoCompatibleVersionReturned(p) ==
    Returned(p) /\ st[p].err # NoErr /\ st[p].err[1] = "No compatible version found for "

C13_NoMatchListsEveryTarget ==
    /\ [][\A p \in Procs : FailsListingTargets(p)]_vars
    /\ [](\A p \in Procs :
            NoCompatibleVersionReturned(p)
                => /\ ~Invoked(p, "download") /\ ~ExtractorInvoked(p)
                   /\ ~PlatformInstallerInvoked(p) /\ fs = st[p].fs0)

\* ~9.0.0 over a catalog of 1.8.0 and 1.8.1: both are listed
C13_Witness ==
    \E p \in Procs :
        /\ NoCompatibleVersionReturned(p)
        /\ st[p].selector = <<"~", "9.0.0">>
        /\ TargetsListed(st[p].err) = <<"1.8.1", ", ", "1.8.0">>

(***************************************************************************)
(* C14: executeInShell runs the commands of its list in list order; the    *)
(* first command that fails ends it with an error that embeds that command *)
(* line and its error, and no later command is run; it returns nil only    *)
(* when every command of the list ran and succeeded.                       *)
(***************************************************************************)
Lines(cc) == [i \in DOMAIN cc |-> cc[i].line]

Failed(p) == st[p].ran # <<>> /\ ~Last(st[p].ran).ok

InShell(p) == st[p].pc = "shell"

C14_ShellRunsInOrderAndFailsFast ==
    \A p \in Procs :
        st[p].cmds # <<>>
            => /\ IsPrefix(Lines(st[p].ran), Lines(st[p].cmds))
               /\ \A i \in 1..(Len(st[p].ran) - 1) : st[p].ran[i].ok
               /\ InShell(p) => /\ ~Failed(p) /\ st[p].err = NoErr
                                /\ Lines(st[p].cmd) = SubSeq(Lines(st[p].cmds), Len(st[p].ran) + 1,
                                                              Len(st[p].cmds))
               /\ ~InShell(p) /\ Failed(p)
                    => st[p].err = <<"'">> \o Flatten(Last(st[p].ran).line) \o <<"' failed: ", "exit status 1">>
               /\ ~InShell(p) /\ ~Failed(p)
                    => /\ Len(st[p].ran) = Len(st[p].cmds)
                       /\ st[p].err = NoErr \/ st[p].err[1] # "'"

\* the second of six commands failed and the other four were not run
C14_Witness ==
    \E p \in Procs :
        /\ Returned(p) /\ Failed(p)
        /\ Len(st[p].ran) = 2 /\ Len(st[p].cmds) = 6
        /\ st[p].err[1] = "'"

(***************************************************************************)
(* What the properties of the disk-image strategy speak of.                *)
(***************************************************************************)
\* installFromDmg ran executeInShell and executeInShell has returned
DmgReturned(p) == Invoked(p, "installFromDmg") /\ st[p].cmds # <<>> /\ ~InShell(p)

Mounted(p) ==
    {i \in DOMAIN st[p].ran :
        st[p].ran[i].line[1] = <<"hdiutil mount -mountpoint">> /\ st[p].ran[i].ok}

\* hdiutil unmount was executed for the mountpoint that was mounted
Unmounted(p) ==
    \E i \in Mounted(p) : \E j \in DOMAIN st[p].ran :
        /\ i < j
        /\ st[p].ran[j].line = << <<"hdiutil unmount">>, st[p].ran[i].line[2] >>

\* a command after the mount and before the unmount failed
FailedWhileMounted(p) ==
    \E j \in DOMAIN st[p].ran :
        /\ ~st[p].ran[j].ok
        /\ st[p].ran[j].line[1] \notin {<<"hdiutil mount -mountpoint">>, <<"hdiutil unmount">>}

(***************************************************************************)
(* C15 as stated: in every run of installFromDmg in which the mount        *)
(* succeeded, hdiutil unmount is executed for that image before            *)
(* installFromDmg returns.                                                 *)
(***************************************************************************)
C15_UnmountAfterEveryMount ==
    \A p \in Procs : DmgReturned(p) /\ Mounted(p) # {} => Unmounted(p)

(***************************************************************************)
(* C15 as amended: in every run of installFromDmg in which the mount and   *)
(* every command between the mount and the unmount succeeded, hdiutil      *)
(* unmount is executed for that image before installFromDmg returns,       *)
(* whichever payload branch fired; when one of those commands fails, the   *)
(* unmount is not executed.                                                *)
(***************************************************************************)
C15_UnmountUnlessACommandFailed ==
    \A p \in Procs :
        DmgReturned(p) /\ Mounted(p) # {} => (Unmounted(p) <=> ~FailedWhileMounted(p))

\* the apple branch fired, the image was unmounted and the install is valid
C15_Witness ==
    \E p \in Procs :
        /\ Returned(p) /\ st[p].err = NoErr /\ Invoked(p, "installFromDmg")
        /\ Last(st[p].source) = "apple"
        /\ Mounted(p) # {} /\ Unmounted(p)
        /\ JavaExists(p)

(***************************************************************************)
(* C17: two invocations for the same version run unguarded.  The failure   *)
(* cleanup of one removes the whole tree at <installRoot>/jdk/<version>,   *)
(* whoever wrote it, so an invocation can return nil although              *)
(* <home>/bin/java is gone once both have finished; and a nil return       *)
(* without <home>/bin/java comes about in no other way than by the cleanup *)
(* of another invocation for the same version.                             *)
(***************************************************************************)
JavaOf(p) == HomeOf(goos, VersionString(st[p].ver)) \o <<"bin", "java">>

\* p returned nil from the pipeline and <home>/bin/java does not exist
Corrupted(p) ==
    Returned(p) /\ st[p].err = NoErr /\ ~ShortCircuited(p) /\ ~JavaExists(p)

\* q failed for the same version and its cleanup removed p's java
CleanedUpBy(p, q) ==
    /\ q # p /\ st[q].ver = st[p].ver
    /\ st[q].err # NoErr /\ Invoked(q, "RemoveAll")
    /\ JavaOf(p) \in st[q].removed

CleanupRemovesWholeTarget(p) ==
    st[p].pc = "rollback" /\ st'[p].pc # "rollback"
        => /\ ~Exists(fs', st[p].target)
           /\ \A q \in Procs : \A x \in st[q].wrote : IsPrefix(st[p].target, x) => ~Exists(fs', x)

C17_SameVersionCleanupCorrupts ==
    /\ [](\A p \in Procs : Corrupted(p) => \E q \in Procs : CleanedUpBy(p, q))
    /\ [][\A p \in Procs : CleanupRemovesWholeTarget(p)]_vars

\* both have returned: one nil, its tree removed by the failed other
C17_Witness ==
    \E p \in Procs : \E q \in Procs :
        /\ Returned(p) /\ Returned(q)
        /\ Corrupted(p) /\ CleanedUpBy(p, q)
        /\ JavaOf(p) \in st[p].wrote
        /\ ~TargetExists(p)

(***************************************************************************)
(* C18: a redirect is refused with "too many redirects" exactly when 10 or *)
(* more requests were already made in the chain; a redirect that is        *)
(* followed keeps the headers it has and gets from the first request every *)
(* header it does not have, so every request of the chain carries a Cookie *)
(* header, and carries the first request's cookie unless it came with one  *)
(* of its own.                                                             *)
(***************************************************************************)
Decided == client.state = "check" /\ client'.state # "check"

RefusedExactlyAtTen ==
    Decided => /\ (client'.err = <<"too many redirects">>) <=> (Len(client.via) >= 10)
               /\ (client'.state = "send") <=> (Len(client.via) < 10)

FollowedCarriesOriginalHeaders ==
    Decided /\ client'.state = "send"
        => /\ client.req \subseteq client'.req
           /\ \A h \in client.via[1] :
                IF h[1] \in Attrs(client.req) THEN h[1] \in Attrs(client'.req)
                ELSE h \in client'.req
           /\ \A h \in client'.req : h \in client.req \/ h \in client.via[1]

Once == {"LsRemote", "MatchString", "download", "installOnLinux", "installOnDarwin",
         "installFromBin", "installFromTgz", "installFromZip", "installFromDmg",
         "assertContentIsValid", "RemoveAll", "Remove"}

StepNo(event) ==
    CASE event = "Ls" -> 0
      [] event = "LsRemote" -> 1
      [] event = "MatchString" -> 2
      [] event = "download" -> 3
      [] event = "assertContentIsValid" -> 5
      [] event \in {"RemoveAll", "Remove"} -> 6
      [] OTHER -> 4

InOrder(log) ==
    /\ \A i \in DOMAIN log : \A j \in DOMAIN log : i < j => StepNo(log[i]) <= StepNo(log[j])
    /\ \A e \in Once : Times(log, e) <= 1
    /\ Cardinality(Extractors \cap Range(log)) <= 1
    /\ Cardinality({"RemoveAll", "Remove"} \cap Range(log)) <= 1

\* the events a step of p adds to its log
Added(p) ==
    IF st'[p].pc = "idle" THEN <<>>
    ELSE IF st[p].pc = "idle" THEN st'[p].log
    ELSE SubSeq(st'[p].log, Len(st[p].log) + 1, Len(st'[p].log))

OnlyAfterSuccess(p) ==
    \A e \in Range(Added(p)) :
        /\ StepNo(e) >= 1 /\ e # "RemoveAll" => st[p].err = NoErr /\ st[p].pc \notin {"idle", "done"}
        /\ e = "MatchString" => st[p].ver # NoVer
        /\ e = "download" => Invoked(p, "MatchString") /\ st[p].fileType # <<>>
        /\ e \in Extractors => st'[p].file # <<>> \/ Invoked(p, "download")
        /\ e = "assertContentIsValid" => ExtractorInvoked(p)
        /\ e = "Remove" => Invoked(p, "assertContentIsValid") /\ st'[p].err = NoErr
        /\ e = "RemoveAll" => st[p].err # NoErr /\ ExtractorInvoked(p)

DownloadFailed(p) ==
    Returned(p) /\ Invoked(p, "download") /\ ~st[p].deleteFileWhenFinnished

C19_StepsInOrderEachAfterSuccess ==
    /\ [](\A p \in Procs : InOrder(st[p].log))
    /\ [][\A p \in Procs : OnlyAfterSuccess(p)]_vars
    /\ [](\A p \in Procs :
            DownloadFailed(p)
                => /\ st[p].err # NoErr /\ st[p].ret = <<>>
                   /\ Last(st[p].log) = "download"
                   /\ ~ExtractorInvoked(p) /\ ~PlatformInstallerInvoked(p)
                   /\ TargetsUnchanged(p))

\* a range was resolved, its archive downloaded, unpacked, validated and removed
C19_Witness ==
    \E p \in Procs :
        /\ Returned(p) /\ st[p].err = NoErr
        /\ st[p].log = <<"LsRemote", "MatchString", "download", "installOnLinux", "installFromTgz",
                          "mkdir -p", "tar xvf", "assertContentIsValid", "Remove">>
        /\ JavaExists(p)

====
